---- MODULE Spec2Model ----
\* The TeX parser Stack (mathjax3-ts/input/tex/Stack.ts): the ordered list of
\* stack items, the current environment record, the shared global record, and
\* the Push / Pop / Top / Prev operations with the checkItem merge protocol.
\*
\* Objects are modelled with identity: a stack item is an index into `items`,
\* an environment record is an address into `heap`.  The results of checkItem
\* (implemented by the item variants, outside Stack.ts) are drawn
\* nondeterministically from every shape the Stack distinguishes.
EXTENDS Integers, Sequences, FiniteSets, TLC

\* ------------------------------------------------------------------ bounds
MaxItems ==
    5
MaxEnv ==
    4
MaxRewrites ==
    1
MaxChecks ==
    2
MaxOps ==
    4
MaxList ==
    2
MaxTopN ==
    3
MaxArgs ==
    2
MaxArgOps ==
    2
MaxArgChecks ==
    1
MaxCascade ==
    6

\* ------------------------------------------------------------ value spaces
Keys == {"a", "b"}
Absent == -1                  \* a key the record does not have
NoEnv == 0                    \* item.env undefined
NoItem == 0                   \* null / undefined item
NoGlobal == 0                 \* an item's global before the Stack assigned it
NoArg == 0                    \* an omitted optional argument (n == null)
NoNode == 0                   \* undefined, where a node was asked for
GlobalRec == 1                \* the record {isInner: inner} of the constructor
Nodes == {1}                  \* raw MmlNode values

EmptyRec == [k \in Keys |-> Absent]
RecA1 == [k \in Keys |-> IF k = "a" THEN 1 ELSE Absent]
RecA0B2 == [k \in Keys |-> IF k = "a" THEN 0 ELSE 2]
RecB2 == [k \in Keys |-> IF k = "b" THEN 2 ELSE Absent]

\* constructor calls: the record the start item's builder gives the sentinel,
\* the caller's _env (<<>> stands for "not supplied") and the inner flag
News ==
    {[start |-> EmptyRec, env |-> <<>>, inner |-> FALSE],
     [start |-> RecA1, env |-> <<>>, inner |-> TRUE],
     [start |-> RecA1, env |-> <<RecA0B2>>, inner |-> FALSE],
     [start |-> RecA1, env |-> <<RecB2>>, inner |-> TRUE]}

\* arguments of Push and elements of a replacement list
NullArg == [t |-> "null", v |-> 0]
NodeArg(n) == [t |-> "node", v |-> n]
ItemArg(i) == [t |-> "item", v |-> i]

\* results of checkItem
Res(t, v) == [t |-> t, v |-> v]
ResTrue == Res("true", <<>>)
ResFalse == Res("false", <<>>)
ResBadTrue == Res("badTrue", <<>>)     \* truthy, not Array, not BaseItem
ResBadFalse == Res("badFalse", <<>>)   \* falsy, not false (0, '', null)
ResThrow == Res("throw", <<>>)         \* checkItem raises an error

VARIABLES
    stack,      \* Stack.stack: sequence of item ids, bottom first
    env,        \* Stack._env: address of the current environment record
    global,     \* Stack.global: identity of the global record
    isInner,    \* global.isInner
    items,      \* the StackItem objects: id -> fields
    nItems,     \* number of StackItem objects created so far
    heap,       \* the EnvList objects: address -> record
    nEnv,       \* number of EnvList objects created so far
    spent,      \* Push calls so far with a merge check that returned other than true
    ops,        \* calls of Push and Pop so far
    marks,      \* history: snapshots taken before each accepted push
    last        \* history: the last operation, its merge checks and outcome

vars == <<stack, env, global, isInner, items, nItems, heap, nEnv, spent, ops, marks, last>>

BlankItem ==
    [kind |-> "none", isOpen |-> FALSE, env |-> NoEnv, global |-> NoGlobal,
     children |-> <<>>]

NoSnap == [stack |-> <<>>, env |-> NoEnv]

\* the Stack's mutable state as one value, threaded through the operations
State ==
    [stack |-> stack, env |-> env, items |-> items, nItems |-> nItems,
     heap |-> heap, nEnv |-> nEnv, marks |-> marks]

\* what the history keeps of the state an operation started in
Pre(st) ==
    [stack |-> st.stack, env |-> st.env, items |-> st.items, heap |-> st.heap,
     nItems |-> st.nItems, nEnv |-> st.nEnv]

NoPre ==
    [stack |-> <<>>, env |-> NoEnv, items |-> <<>>, heap |-> <<>>,
     nItems |-> 0, nEnv |-> 0]

\* the record of one call: its arguments, the merge checks it made, how it
\* ended ("ok" or "error") and what it returned
Op(op, args, log, outcome, ret, pre) ==
    [op |-> op, args |-> args, log |-> log, outcome |-> outcome, ret |-> ret,
     pre |-> pre, matched |-> FALSE, snap |-> NoSnap, k |-> 0]

Range(s) == {s[i] : i \in 1..Len(s)}
Front(s) == SubSeq(s, 1, Len(s) - 1)

\* ------------------------------------------------------------- Stack.Top
\* variant: positions are counted from the bottom of the stack
TopItemFromBottom(st, n) ==
    LET m == IF n = NoArg THEN 1 ELSE n
    IN  IF Len(st.stack) < m THEN NoItem ELSE st.stack[m]

\* Top(n): n == null -> 1; fewer than n items -> null
TopItem(st, n) ==
    LET m == IF n = NoArg THEN 1 ELSE n
    IN  IF Len(st.stack) < m THEN NoItem ELSE st.stack[Len(st.stack) - m + 1]

\* --------------------------------------------------- new EnvList objects
Alloc(st, rec) ==
    [st EXCEPT !.nEnv = st.nEnv + 1, !.heap[st.nEnv + 1] = rec]

\* ------------------------------------------------------------- Stack.Pop
\* variant: the closed item keeps its record
DeleteEnvNever(st, item) ==
    st

\* if (!item.isOpen) delete item.env
DeleteEnv(st, item) ==
    IF st.items[item].isOpen THEN st
    ELSE [st EXCEPT !.items[item].env = NoEnv]

\* variant: the current environment is left where the popped item had it
ResetEnvStale(st) ==
    st

\* this.env = (this.stack.length ? this.Top().env : {})
ResetEnv(st) ==
    IF Len(st.stack) > 0 THEN [st EXCEPT !.env = st.items[TopItem(st, NoArg)].env]
    ELSE LET s2 == Alloc(st, EmptyRec) IN [s2 EXCEPT !.env = s2.nEnv]

\* variant: the item is removed, the current environment is not reset
PopStateNoReset(st) ==
    DeleteEnv([st EXCEPT !.stack = Front(st.stack)], TopItem(st, NoArg))

\* variant: nothing is removed
PopStateKeep(st) ==
    st

\* Pop on a non-empty stack: the state it leaves
PopState(st) ==
    LET item == TopItem(st, NoArg)
        s1 == [st EXCEPT !.stack = Front(st.stack)]
    IN  ResetEnv(DeleteEnv(s1, item))

\* the empty record of ResetEnv needs a free address
CanPop(st) == Len(st.stack) > 1 \/ (Len(st.stack) = 1 /\ st.nEnv < MaxEnv)

\* variant: Pop on an empty stack returns normally
PopOutcomeSilent(st) ==
    "ok"

\* const item = this.stack.pop(); item.isOpen: a TypeError when item is undefined
PopOutcome(st) ==
    IF st.stack = <<>> THEN "error" ELSE "ok"

\* variant: Prev on an empty stack returns normally
PrevOutcomeSilent(st) ==
    "ok"

\* const top = this.Top(); top.Last, top.Pop(): a TypeError when top is null
PrevOutcome(st) ==
    IF TopItem(st, NoArg) = NoItem THEN "error" ELSE "ok"

\* ------------------------------------------------------------ Stack.Push
\* this._factory.create('mml', node)
MmlItem(n) ==
    [kind |-> "mml", isOpen |-> FALSE, env |-> NoEnv, global |-> NoGlobal,
     children |-> <<n>>]

\* variant: a node is taken as it is, as if it were an item
WrapSkip(st, arg) ==
    <<st, arg.v>>

\* const item = TreeHelper.isNode(node) ? this._factory.create('mml', node) : node
\* returns <<state, item id>>
Wrap(st, arg) ==
    IF arg.t = "node"
    THEN <<[st EXCEPT !.nItems = st.nItems + 1,
                      !.items[st.nItems + 1] = MmlItem(arg.v)],
           st.nItems + 1>>
    ELSE <<st, arg.v>>

\* variant: the item keeps the global it came with
AssignGlobalSkip(st, item) ==
    st

\* item.global = this.global
AssignGlobal(st, item) ==
    [st EXCEPT !.items[item].global = global]

\* variant: a key the item already has is not overwritten
OverlayItemWins(own, cur) ==
    [k \in Keys |-> IF own[k] # Absent THEN own[k] ELSE cur[k]]

\* for (let id in this.env) item.env[id] = this.env[id]
Overlay(own, cur) ==
    [k \in Keys |-> IF cur[k] # Absent THEN cur[k] ELSE own[k]]

\* variant: an item without a record of its own is left without env
AcceptNoInherit(st, item) ==
    LET s1 == [st EXCEPT !.stack = Append(st.stack, item)]
        e  == st.items[item].env
    IN  IF e # NoEnv
        THEN [s1 EXCEPT !.heap[e] = Overlay(st.heap[e], st.heap[st.env]),
                        !.env = e]
        ELSE s1

\* the accept branch: this.stack.push(item) and the environment threading
Accept(st, item) ==
    LET s1 == [st EXCEPT !.stack = Append(st.stack, item)]
        e  == st.items[item].env
    IN  IF e # NoEnv
        THEN [s1 EXCEPT !.heap[e] = Overlay(st.heap[e], st.heap[st.env]),
                        !.env = e]
        ELSE [s1 EXCEPT !.items[item].env = st.env]

\* variant: the list is pushed last element first
ListWorkReversed(l, rest) ==
    [i \in 1..Len(l) |-> l[Len(l) + 1 - i]] \o rest

\* this.Pop(); this.Push.apply(this, top): the arguments still to be pushed
ListWork(l, rest) ==
    l \o rest

\* variant: the replacement is pushed after the remaining arguments
ItemWorkAfter(l, rest) ==
    rest \o l

\* this.Pop(); this.Push(top)
ItemWork(l, rest) ==
    l \o rest

\* variant: a rejected item is appended all the same
DropAppends(st, item) ==
    [st EXCEPT !.stack = Append(st.stack, item)]

\* top is false (or another falsy value): no branch of Push is taken
Drop(st, item) ==
    st

\* items that exist and are not on the stack
OffStack(st) == (1..st.nItems) \ Range(st.stack)

\* what a replacement may hold: nodes, and items that are neither on the
\* stack nor the top item being replaced
Elems(st) ==
    {ItemArg(i) : i \in OffStack(st)} \cup {NodeArg(n) : n \in Nodes}

Lists(st) ==
    UNION {[1..n -> Elems(st)] : n \in 0..MaxList}

\* every shape Top().checkItem(item) can return, or the error it can raise
checkItem(st, limit) ==
    {ResTrue} \cup
    IF limit = 0 THEN {}
    ELSE {ResFalse, ResBadTrue, ResBadFalse, ResThrow}
            \cup {Res("item", <<e>>) : e \in {x \in Elems(st) : x.t = "item"}}
            \cup {Res("list", l) : l \in Lists(st)}

Entry(st, item, res) ==
    [top |-> TopItem(st, NoArg), cand |-> item, res |-> res,
     ownEnv |-> st.items[item].env # NoEnv, depth |-> Len(st.stack)]

Outcome(st, log, outcome) == [st |-> st, log |-> log, outcome |-> outcome]

Mark(st) == [stack |-> st.stack, env |-> st.env]

\* the kinds of result a merge check can have
AllKinds == {"true", "false", "badTrue", "badFalse", "throw", "item", "list"}

\* Push(...args): the set of states the call can end in, one per choice of
\* the merge-check results among the results of the kinds `kinds`.  `work` is
\* the arguments still to be processed (a recursive Push of a replacement
\* runs before the rest of the loop).
RECURSIVE PushRunOf(_, _, _, _, _)
PushRunOf(st, work, log, limit, kinds) ==
    IF work = <<>> THEN {Outcome(st, log, "ok")}
    ELSE
    LET arg  == Head(work)
        rest == Tail(work)
    IN
    IF arg.t = "null" THEN PushRunOf(st, rest, log, limit, kinds)
    ELSE IF arg.t = "node" /\ st.nItems >= MaxItems THEN {}
    ELSE IF arg.t = "item" /\ arg.v \in Range(st.stack) THEN {}
    ELSE
    LET w    == Wrap(st, arg)
        item == w[2]
        s1   == AssignGlobal(w[1], item)
    IN
    IF Len(s1.stack) = 0
    THEN PushRunOf([Accept(s1, item) EXCEPT !.marks = Append(s1.marks, Mark(s1))],
                   rest, Append(log, Entry(s1, item, ResTrue)), limit, kinds)
    ELSE UNION {
        LET log2 == Append(log, Entry(s1, item, top))
            s2   == [s1 EXCEPT !.marks = <<>>]
        IN
        CASE top.t = "throw" -> {Outcome(s2, log2, "error")}
          [] top.t = "list" ->
                IF CanPop(s2)
                THEN PushRunOf(PopState(s2), ListWork(top.v, rest), log2, limit - 1,
                               kinds)
                ELSE {}
          [] top.t = "item" ->
                IF CanPop(s2)
                THEN PushRunOf(PopState(s2), ItemWork(top.v, rest), log2, limit - 1,
                               kinds)
                ELSE {}
          [] top.t = "true" ->
                PushRunOf([Accept(s1, item) EXCEPT !.marks = Append(s1.marks, Mark(s1))],
                          rest, log2, limit, kinds)
          [] top.t = "badTrue" ->
                PushRunOf(Accept(s2, item), rest, log2, limit - 1, kinds)
          [] OTHER -> PushRunOf(Drop(s2, item), rest, log2, limit - 1, kinds)
        : top \in {r \in checkItem(s1, limit) : r.t \in kinds} }

\* Push(...args) where a merge check can have a result of any kind
PushRun(st, work, log, limit) ==
    PushRunOf(st, work, log, limit, AllKinds)

\* arguments the grammar may pass to Push: a raw node, an item that is not on
\* the stack
ArgVals(st) ==
    {NodeArg(n) : n \in Nodes} \cup {ItemArg(i) : i \in OffStack(st)}

\* --------------------------------------------------- StackItem (BaseItem)
\* item.Last
ItemLast(it) ==
    IF it.children = <<>> THEN NoNode ELSE it.children[Len(it.children)]

\* item.Pop(): the item without its last child
ItemPop(it) ==
    IF it.children = <<>> THEN it
    ELSE [it EXCEPT !.children = Front(it.children)]

\* this._factory.create('start', this.global), given the builder's record
StartItem(g, e) ==
    [kind |-> "start", isOpen |-> TRUE, env |-> e, global |-> g,
     children |-> <<>>]

\* factory.create(kind, ...) as called by the grammar
NewItem(open, e, kids) ==
    [kind |-> "item", isOpen |-> open, env |-> e, global |-> NoGlobal,
     children |-> kids]

\* variant: the node is removed whatever noPop is
PrevItemAlwaysPops(it, noPop) ==
    ItemPop(it)

\* variant: the node is removed when noPop is true and kept when it is not
PrevItemSwapped(it, noPop) ==
    IF noPop THEN ItemPop(it) ELSE it

\* return noPop ? top.Last : top.Pop(): the top item after the call
PrevItem(it, noPop) ==
    IF noPop THEN it ELSE ItemPop(it)

\* ------------------------------------------------------------------ Init
\* the constructor's argument as recorded in the history
NewArg(new) == [t |-> "new", v |-> new]

\* variant: the sentinel keeps the record its builder gave it
InitEnvIgnored(item, supplied, addr) ==
    item

\* if (_env) { this.stack[0].env = _env; }
InitEnv(item, supplied, addr) ==
    IF supplied THEN [item EXCEPT !.env = addr] ELSE item

\* constructor(_factory, _env, inner).  Record 2 is the one the start item's
\* builder made, record 3 the caller's _env when it is supplied.  The grammar
\* holds two items it built through the factory: item 2 is open, has its own
\* record {a: 1} (record 1) and two children; item 3 has no record and is
\* open or closed as `open3` says.
InitWith(open3) ==
    \E new \in News :
        /\ global = GlobalRec
        /\ isInner = new.inner
        /\ nEnv = IF new.env # <<>> THEN 3 ELSE 2
        /\ heap = [a \in 1..MaxEnv |->
                     IF a = 1 THEN RecA1
                     ELSE IF a = 2 THEN new.start
                     ELSE IF a = 3 /\ new.env # <<>> THEN new.env[1]
                     ELSE EmptyRec]
        /\ nItems = 3
        /\ items = [i \in 1..MaxItems |->
                     IF i = 1
                     THEN InitEnv(StartItem(GlobalRec, 2), new.env # <<>>, 3)
                     ELSE IF i = 2 THEN NewItem(TRUE, 1, <<2, 3>>)
                     ELSE IF i = 3 THEN NewItem(open3, NoEnv, <<>>)
                     ELSE BlankItem]
        /\ stack = <<1>>
        /\ env = items[stack[1]].env
        /\ spent = 0
        /\ ops = 0
        /\ marks = <<>>
        /\ last = Op("new", <<NewArg(new)>>, <<>>, "ok", NoItem, NoPre)

\* the item without a record is closed
Init ==
    InitWith(FALSE)

\* the item without a record is open
InitReuse ==
    InitWith(TRUE)

Install(st) ==
    /\ stack' = st.stack
    /\ env' = st.env
    /\ items' = st.items
    /\ nItems' = st.nItems
    /\ heap' = st.heap
    /\ nEnv' = st.nEnv
    /\ marks' = st.marks
    /\ ops' = ops + 1
    /\ UNCHANGED <<global, isInner>>

\* every merge check of the call returned true
Plain(log) == \A i \in 1..Len(log) : log[i].res.t = "true"

\* --------------------------------------------------------------- actions
\* Push(arg), with at most `fuel` merge checks that return other than true
PushWith(fuel) ==
    /\ ops < MaxOps
    /\ \E a \in ArgVals(State) :
        \E o \in PushRun(State, <<a>>, <<>>, fuel) :
            /\ Install(o.st)
            /\ spent' = IF Plain(o.log) THEN spent ELSE spent + 1
            /\ last' = Op("Push", <<a>>, o.log, o.outcome, NoItem, Pre(State))

Push ==
    PushWith(IF spent < MaxRewrites THEN MaxChecks ELSE 0)

\* Push(arg) where every merge check returns true
PushAccepted ==
    PushWith(0)

\* the argument lists of a call Push(...args): nodes, items that are not on
\* the stack, and null
ArgLists(st) ==
    UNION {[1..n -> ArgVals(st) \cup {NullArg}] : n \in 1..MaxArgs}

\* the merge checks of the next multi-argument call that may return other
\* than true
ArgFuel == IF spent < MaxRewrites THEN MaxArgChecks ELSE 0

\* Push(...args) with one or more arguments, some of which may be null
PushArgs ==
    /\ ops < MaxArgOps
    /\ \E as \in ArgLists(State) :
        \E o \in PushRun(State, as, <<>>, ArgFuel) :
            /\ Install(o.st)
            /\ spent' = IF Plain(o.log) THEN spent ELSE spent + 1
            /\ last' = Op("Push", as, o.log, o.outcome, NoItem, Pre(State))

Pop ==
    /\ ops < MaxOps
    /\ IF stack = <<>>
       THEN /\ last' = Op("Pop", <<>>, <<>>, PopOutcome(State), NoItem, Pre(State))
            /\ marks' = <<>>
            /\ ops' = ops + 1
            /\ UNCHANGED <<stack, env, global, isInner, items, nItems, heap, nEnv, spent>>
       ELSE /\ CanPop(State)
            /\ LET matched == marks # <<>>
                   s1 == PopState(State)
               IN  /\ Install([s1 EXCEPT !.marks = IF matched THEN Front(marks) ELSE <<>>])
                   /\ spent' = spent
                   /\ last' = [Op("Pop", <<>>, <<>>, "ok", TopItem(State, NoArg), Pre(State))
                                EXCEPT !.matched = matched,
                                       !.snap = IF matched THEN marks[Len(marks)] ELSE NoSnap,
                                       !.k = IF ~matched THEN 0
                                             ELSE IF last.op = "Pop" /\ last.matched
                                             THEN last.k + 1 ELSE 1]

\* Top(n), n omitted or a position
Top ==
    /\ ops < MaxOps
    /\ \E n \in {NoArg} \cup (1..MaxTopN) :
        last' = Op("Top", <<ItemArg(n)>>, <<>>, "ok", TopItem(State, n), Pre(State))
    /\ ops' = ops + 1
    /\ UNCHANGED <<stack, env, global, isInner, items, nItems, heap, nEnv, spent, marks>>

\* Prev(noPop)
Prev ==
    /\ ops < MaxOps
    /\ ops' = ops + 1
    /\ \E noPop \in BOOLEAN :
        LET top == TopItem(State, NoArg)
            arg == <<IF noPop THEN ItemArg(1) ELSE NullArg>>
        IN  IF top = NoItem
            THEN /\ last' = Op("Prev", arg, <<>>, PrevOutcome(State), NoNode, Pre(State))
                 /\ UNCHANGED items
            ELSE /\ last' = Op("Prev", arg, <<>>, "ok", ItemLast(items[top]), Pre(State))
                 /\ items' = [items EXCEPT ![top] = PrevItem(items[top], noPop)]
    /\ UNCHANGED <<stack, env, global, isInner, nItems, heap, nEnv, spent, marks>>

Next ==
    \/ Push
    \/ Pop

Spec == Init /\ [][Next]_vars

\* the lookups, among pushes that are accepted and pops
NextLookup ==
    \/ PushAccepted
    \/ Pop
    \/ Top
    \/ Prev

SpecLookup == Init /\ [][NextLookup]_vars

\* Pop, among calls of Push with several arguments
PopArgs ==
    /\ ops < MaxArgOps
    /\ Pop

\* Push and Pop where the grammar holds an open item that has no record
SpecReuse == InitReuse /\ [][Next]_vars

\* the results of a merge check when it never answers with a list, an
\* unrecognized value or an error
NoListKinds == {"true", "false", "item"}

\* Push(arg) where every merge check returns true, false or a replacement
\* item
PushNoList ==
    /\ ops < MaxOps
    /\ \E a \in ArgVals(State) :
        \E o \in PushRunOf(State, <<a>>, <<>>, MaxCascade, NoListKinds) :
            /\ Install(o.st)
            /\ spent' = IF Plain(o.log) THEN spent ELSE spent + 1
            /\ last' = Op("Push", <<a>>, o.log, o.outcome, NoItem, Pre(State))

NextCascade ==
    \/ PushNoList
    \/ Pop

SpecCascade == Init /\ [][NextCascade]_vars

\* calls of Push with several arguments, and pops
NextArgs ==
    \/ PushArgs
    \/ PopArgs

SpecArgs == Init /\ [][NextArgs]_vars

\* ================================================================ claims
Log == last.log
OnStack(i) == i \in Range(stack)
TopNow == stack[Len(stack)]

\* the last call was Push of one argument, checked once, with result kind t
PushedOnce(t) ==
    /\ last.op = "Push"
    /\ last.outcome = "ok"
    /\ Len(Log) = 1
    /\ Log[1].res.t = t

\* the record an accepted item owned before the Push, and the current
\* environment before the Push
OwnBefore == last.pre.heap[last.pre.items[Log[1].cand].env]
CurBefore == last.pre.heap[last.pre.env]

C2_CurrentEnv ==
    /\ env # NoEnv
    /\ stack # <<>> => env = items[TopNow].env
    /\ stack = <<>> => heap[env] = EmptyRec

\* a Push that popped the top for a replacement list has completed
C2_Witness ==
    /\ last.op = "Push"
    /\ \E i \in 1..Len(Log) : Log[i].res.t = "list" /\ Len(Log[i].res.v) = 2
    /\ Len(stack) >= 2
    /\ env # last.pre.env

\* C3 as claimed: a Pop that undoes an accepted push leaves the item sequence
\* and the current-environment pointer as they were before that push, so k
\* accepted pushes followed by k Pops restore both.
C3_RoundTrip ==
    (last.op = "Pop" /\ last.matched) =>
        /\ stack = last.snap.stack
        /\ env = last.snap.env

\* C3 amended: k accepted pushes followed by k Pops restore the item sequence;
\* they restore the current-environment pointer when the stack held an item
\* before the pushes, and when it was empty the current environment is an
\* empty record again, but a newly created one.
C3_RoundTripNonEmpty ==
    (last.op = "Pop" /\ last.matched) =>
        /\ stack = last.snap.stack
        /\ last.snap.stack # <<>> => env = last.snap.env
        /\ last.snap.stack = <<>> => (heap[env] = EmptyRec /\ env # last.snap.env)

\* two accepted pushes were undone by two Pops
C3_Witness ==
    /\ last.op = "Pop"
    /\ last.matched
    /\ last.k = 2
    /\ last.snap.stack # <<>>
    /\ env = last.snap.env

\* C4: every item on the stack has the Stack's own global record as its
\* global, and the Stack's global is the record made by the constructor.
C4_GlobalIdentity ==
    /\ global = GlobalRec
    /\ \A i \in Range(stack) : items[i].global = global

\* a wrapped node and an item that came out of a replacement are on the stack
C4_Witness ==
    /\ last.op = "Push"
    /\ \E i \in 1..Len(Log) : Log[i].res.t \in {"list", "item"}
    /\ \E i \in Range(stack) : items[i].kind = "mml"
    /\ \E i \in Range(stack) : items[i].kind = "item"

\* the merge checks of the last Push that returned an unrecognized value
BadChecks == {i \in 1..Len(Log) : Log[i].res.t \in {"badTrue", "badFalse"}}

\* C5: a merge check that returns a value that is none of true, false, an
\* item or a list makes Push end in an error, and the candidate of that
\* check is not appended to the stack.
C5_InvalidMergeResult ==
    (last.op = "Push" /\ BadChecks # {}) =>
        /\ last.outcome = "error"
        /\ \A i \in BadChecks : ~OnStack(Log[i].cand)

C7_ClosedCleanup ==
    (last.op = "Pop" /\ last.outcome = "ok" /\ ~last.pre.items[last.ret].isOpen) =>
        /\ items[last.ret].env = NoEnv
        /\ stack # <<>> =>
            /\ items[TopNow].env = last.pre.items[TopNow].env
            /\ heap[items[TopNow].env] = last.pre.heap[items[TopNow].env]
            /\ env = items[TopNow].env

\* a closed item that had an env was popped off an item that stays
C7_Witness ==
    /\ last.op = "Pop"
    /\ last.outcome = "ok"
    /\ ~last.pre.items[last.ret].isOpen
    /\ last.pre.items[last.ret].env # NoEnv
    /\ items[last.ret].env = NoEnv
    /\ stack # <<>>

\* the item that stands for list element e once it is pushed as candidate c
Stands(c, e) ==
    IF e.t = "item" THEN c = e.v
    ELSE items[c].kind = "mml" /\ items[c].children = <<e.v>>

\* the last Push got the list [X, Y] from the top T for its candidate, X and
\* Y are other items than the candidate, and each was accepted in turn
ListOfTwo ==
    /\ last.op = "Push"
    /\ last.outcome = "ok"
    /\ Len(Log) = 3
    /\ Log[1].res.t = "list"
    /\ Len(Log[1].res.v) = 2
    /\ Log[2].res.t = "true"
    /\ Log[3].res.t = "true"
    /\ Log[2].cand # Log[1].cand
    /\ Log[3].cand # Log[1].cand

Replaced ==
    /\ last.op = "Push"
    /\ last.outcome = "ok"
    /\ Len(Log) = 2
    /\ Log[1].res.t = "item"
    /\ Log[1].res.v[1].v # Log[1].cand
    /\ Log[2].res.t = "true"

\* C9: when the top I1 returns the replacement item I2 for candidate C and
\* the item below I1 accepts I2, the top is I2, neither I1 nor C is on the
\* stack, and the depth is the depth before the Push.
C9_Replacement ==
    Replaced =>
        /\ TopNow = Log[1].res.v[1].v
        /\ ~OnStack(Log[1].top)
        /\ ~OnStack(Log[1].cand)
        /\ Len(stack) = Len(last.pre.stack)
        /\ Front(stack) = Front(last.pre.stack)

\* a node was pushed and the top, with an item below it, was replaced
C9_Witness ==
    /\ Replaced
    /\ Len(last.pre.stack) = 2
    /\ last.args[1].t = "node"
    /\ Log[2].top = 1

\* C10: when the merge check returns false, the item sequence, the current
\* environment, the env of every item on the stack (the record and its keys)
\* and the children of the top item are as before the Push.
C10_Rejected ==
    PushedOnce("false") =>
        /\ stack = last.pre.stack
        /\ env = last.pre.env
        /\ \A i \in Range(stack) :
            /\ items[i].env = last.pre.items[i].env
            /\ heap[items[i].env] = last.pre.heap[items[i].env]
        /\ items[TopNow].children = last.pre.items[TopNow].children

\* a node was rejected by a top item that has children
C10_Witness ==
    /\ PushedOnce("false")
    /\ last.args[1].t = "node"
    /\ items[TopNow].children # <<>>
    /\ Len(stack) = 2

\* the position asked of the last Top call (1 when n was omitted) and the
\* depth of the stack it was asked of
TopPos == IF last.args[1].v = NoArg THEN 1 ELSE last.args[1].v
TopDepth == Len(last.pre.stack)

\* C11: Top(n) with 1 <= n <= depth returns the item n positions from the top
\* (Top() and Top(1) the topmost item); with n > depth, and for any n on the
\* empty stack, it returns null; it raises no error.
C11_TopN ==
    last.op = "Top" =>
        /\ last.outcome = "ok"
        /\ TopPos <= TopDepth =>
                last.ret = last.pre.stack[TopDepth - TopPos + 1]
        /\ TopPos > TopDepth => last.ret = NoItem

\* Top(2) on a stack of three items returned the middle one
C11_Witness ==
    /\ last.op = "Top"
    /\ last.args[1].v = 2
    /\ TopDepth = 3
    /\ last.ret = stack[2]
    /\ last.ret # NoItem

\* the constructor call that made this Stack, while no operation has followed
Made == last.args[1].v
Supplied == Made.env # <<>>

\* C12 as claimed: right after construction the stack holds one item, of kind
\* start, the global record has the inner flag, and with an initial record
\* supplied the current environment is the sentinel's env, has every key of
\* the initial record with its value, and still has every key the sentinel's
\* builder had set.
C12_InitialMerged ==
    last.op = "new" =>
        /\ Len(stack) = 1
        /\ items[stack[1]].kind = "start"
        /\ global = GlobalRec
        /\ isInner = Made.inner
        /\ Supplied =>
            /\ env = items[stack[1]].env
            /\ \A k \in Keys :
                 /\ Made.env[1][k] # Absent => heap[env][k] = Made.env[1][k]
                 /\ Made.start[k] # Absent => heap[env][k] # Absent

\* C12 amended: right after construction the stack holds one item, of kind
\* start, the global record has the inner flag, and the current environment is
\* the sentinel's env; with an initial record supplied that is the caller's
\* record itself, which replaces the builder's record (a key only the builder
\* had set is absent); with none supplied it is the builder's record.
C12_InitialReplaced ==
    last.op = "new" =>
        /\ Len(stack) = 1
        /\ items[stack[1]].kind = "start"
        /\ global = GlobalRec
        /\ isInner = Made.inner
        /\ env = items[stack[1]].env
        /\ Supplied => (env = 3 /\ heap[env] = Made.env[1])
        /\ ~Supplied => (env = 2 /\ heap[env] = Made.start)

\* constructed with {b: 2} while the sentinel's builder had set {a: 1}
C12_Witness ==
    /\ last.op = "new"
    /\ Supplied
    /\ Made.start = RecA1
    /\ heap[env] = RecB2
    /\ isInner

\* the last call was a Push that a merge check ended by raising an error
PushRaised ==
    /\ last.op = "Push"
    /\ last.outcome = "error"

\* C13: when a merge check raises during a Push, at the first check or in the
\* nested pushes that follow a replacement after the old top was popped, the
\* current environment is the env of the top item (an empty record when the
\* stack is empty) and every item on the stack has its env set.
C13_IntegrityOnError ==
    PushRaised =>
        /\ stack # <<>> => env = items[TopNow].env
        /\ stack = <<>> => heap[env] = EmptyRec
        /\ \A i \in Range(stack) : items[i].env # NoEnv

\* the top, which had a record of its own, was popped for a replacement list,
\* the first element of the list was accepted and the check of the second
\* raised
C13_Witness ==
    /\ PushRaised
    /\ Len(Log) = 3
    /\ Log[1].res.t = "list"
    /\ Log[2].res.t = "true"
    /\ Log[3].res.t = "throw"
    /\ ~OnStack(Log[1].top)
    /\ last.pre.env # last.pre.items[last.pre.stack[1]].env
    /\ Len(stack) = Len(last.pre.stack)

\* C14: when an accepted item has no env of its own, after the Push its env
\* is the very record that was the current environment before the Push, the
\* current-environment pointer is unchanged, and that record has the same
\* keys and values as before.
C14_InheritByReference ==
    (PushedOnce("true") /\ ~Log[1].ownEnv) =>
        /\ items[Log[1].cand].env = last.pre.env
        /\ env = last.pre.env
        /\ heap[last.pre.env] = last.pre.heap[last.pre.env]

\* a raw node was accepted on top of an item whose record has keys
C14_Witness ==
    /\ PushedOnce("true")
    /\ ~Log[1].ownEnv
    /\ last.args[1].t = "node"
    /\ items[TopNow].env = last.pre.env
    /\ heap[env] # EmptyRec
    /\ Len(stack) >= 2

\* the number of merge checks in a log that returned other than true
NonTrue(log) == Cardinality({i \in 1..Len(log) : log[i].res.t # "true"})

\* calling Push(a) one at a time, left to right, for the non-null a of args:
\* every state the calls can end in, with the merge checks made; a call that
\* raises ends the sequence
RECURSIVE OneAtATime(_, _, _, _)
OneAtATime(st, args, log, budget) ==
    IF args = <<>> THEN {Outcome(st, log, "ok")}
    ELSE IF Head(args).t = "null" THEN OneAtATime(st, Tail(args), log, budget)
    ELSE UNION {
        IF o.outcome = "error" THEN {o}
        ELSE OneAtATime(o.st, Tail(args), o.log, budget)
        : o \in PushRun(st, <<Head(args)>>, log, budget - NonTrue(log)) }

\* C15: in every state and for every argument list a1..an, Push(a1, ..., an)
\* can end in exactly the states (item sequence, every item's env, the
\* records, the current environment), with exactly the merge checks, that
\* calling Push(ai) one at a time, left to right, for exactly the non-null ai
\* can end in; a null argument causes no merge check and no change.
C15_Sequential ==
    \A as \in ArgLists(State) :
        PushRun(State, as, <<>>, ArgFuel) = OneAtATime(State, as, <<>>, ArgFuel)

\* Push(item, node): the item got a replacement list of one element, and the
\* node was checked after that element and accepted
C15_Witness ==
    /\ last.op = "Push"
    /\ last.outcome = "ok"
    /\ Len(last.args) = 2
    /\ last.args[1].t = "item"
    /\ last.args[2].t = "node"
    /\ Len(Log) >= 3
    /\ Log[1].res.t = "list"
    /\ Len(Log[1].res.v) = 1
    /\ Log[Len(Log)].res.t = "true"
    /\ items[TopNow].kind = "mml"

\* the last call was Prev on a stack whose top item had a child; its noPop
\* argument; the children the top item had before the call
PrevCalled ==
    /\ last.op = "Prev"
    /\ last.pre.stack # <<>>
    /\ last.pre.items[last.pre.stack[Len(last.pre.stack)]].children # <<>>
NoPop == last.args[1].t = "item"
KidsBefore == last.pre.items[last.pre.stack[Len(last.pre.stack)]].children

\* after Prev(false) the top item has lost its last child, which was returned
PrevRemoved ==
    (PrevCalled /\ ~NoPop) =>
        /\ last.outcome = "ok"
        /\ last.ret = KidsBefore[Len(KidsBefore)]
        /\ items[TopNow].children = Front(KidsBefore)
        /\ stack = last.pre.stack

\* after Prev(true) the top item has the children it had, and its last child
\* was returned
PrevKept ==
    (PrevCalled /\ NoPop) =>
        /\ last.outcome = "ok"
        /\ last.ret = KidsBefore[Len(KidsBefore)]
        /\ items[TopNow].children = KidsBefore
        /\ stack = last.pre.stack

\* a Prev call that directly follows a Prev(true) returns the node that call
\* returned
PrevAgain ==
    (PrevCalled /\ NoPop /\ last'.op = "Prev") => last'.ret = last.ret

LookupStep ==
    /\ last'.outcome = "ok"
    /\ \/ last'.op = "Top"
       \/ last'.op = "Prev" /\ last'.args[1].t = "item"

IsItem(c) == c \in 1..nItems /\ items[c].kind \in {"start", "item", "mml"}
MadeNow(c) == c \in (last.pre.nItems + 1)..nItems

\* the candidate c of a merge check is the item that stands for the pushed
\* value e: e itself when e is an item, a new item of kind mml that holds
\* the node when e is a raw node
WrappedAs(c, e) ==
    IF e.t = "item" THEN c = e.v
    ELSE /\ MadeNow(c)
         /\ items[c].kind = "mml"
         /\ items[c].children = <<e.v>>

\* C18: every merge check of a Push is called with a Stack Item: for a
\* direct argument that is a raw node, and for a raw node that is an element
\* of a replacement list, with a new item of kind mml that holds the node;
\* and every element of the stack is a Stack Item.
C18_AutoWrap ==
    /\ \A j \in Range(stack) : IsItem(j)
    /\ last.op = "Push" =>
        /\ \A i \in 1..Len(Log) : IsItem(Log[i].cand)
        /\ Len(Log) >= 1 => WrappedAs(Log[1].cand, last.args[1])
        /\ \A i \in 1..Len(Log) :
            (Log[i].res.t = "list" /\ Len(Log[i].res.v) >= 1 /\ i < Len(Log)) =>
                /\ WrappedAs(Log[i + 1].cand, Log[i].res.v[1])
                /\ (Len(Log[i].res.v) = 2 /\ Log[i + 1].res.t = "true"
                        /\ i + 2 <= Len(Log)) =>
                     WrappedAs(Log[i + 2].cand, Log[i].res.v[2])

\* a raw node was pushed, the top answered with a list of a raw node and an
\* item, and two items of kind mml were made, one of which is on the stack
\* below the item
C18_Witness ==
    /\ last.op = "Push"
    /\ last.outcome = "ok"
    /\ last.args[1].t = "node"
    /\ Len(Log) = 3
    /\ Log[1].res.t = "list"
    /\ Len(Log[1].res.v) = 2
    /\ Log[1].res.v[1].t = "node"
    /\ Log[1].res.v[2].t = "item"
    /\ nItems = last.pre.nItems + 2
    /\ items[stack[Len(stack) - 1]].kind = "mml"
    /\ stack[Len(stack) - 1] # Log[1].cand
    /\ ~OnStack(Log[1].cand)

\* the depth of the stack after merge check i of the last call, before what
\* follows the check is pushed: a replacement pops the top
DepthAfter(i) ==
    IF Log[i].res.t \in {"list", "item"} THEN Log[i].depth - 1 ELSE Log[i].depth

\* the items that were on the stack before the last Push and were not popped
\* during it: they are below everything the call pushed
Stayed ==
    {last.pre.stack[p] : p \in {q \in 1..Len(last.pre.stack) :
                                  \A i \in 1..Len(Log) : q <= DepthAfter(i)}}

\* C19: a Push adds or changes no key in the env record of an item that was
\* already on the stack and stays below what is pushed, also when the item
\* pushed is one that was popped earlier while still open.
C19_NoAliasing ==
    last.op = "Push" =>
        \A j \in Stayed :
            /\ items[j].env = last.pre.items[j].env
            /\ heap[items[j].env] = last.pre.heap[items[j].env]

\* the merge checks of the last call: the log entries made by a top item (an
\* item pushed on the empty stack is accepted without a check)
Checks == {i \in 1..Len(Log) : Log[i].top # NoItem}
Replacements == {i \in 1..Len(Log) : Log[i].res.t = "item"}

\* C20: when every merge check returns true, false or one replacement item,
\* Push of one argument on a stack of depth d returns after at most d + 1
\* merge checks, before the model's cap on checks is reached; after a
\* replacement the next check sees a stack one item lower; the final depth is
\* at most d + 1, and at most d when a replacement occurred.
C20_Cascade ==
    last.op = "Push" =>
        /\ last.outcome = "ok"
        /\ Cardinality(Checks) <= Len(last.pre.stack) + 1
        /\ NonTrue(Log) < MaxCascade
        /\ \A i \in Replacements :
            /\ Log[i].depth >= 1
            /\ i < Len(Log) => Log[i + 1].depth = Log[i].depth - 1
        /\ Len(stack) <= Len(last.pre.stack) + 1
        /\ Replacements # {} => Len(stack) <= Len(last.pre.stack)

\* on a stack of three items each top in turn answered with a replacement
\* item, and the last replacement was accepted on the empty stack
C20_Witness ==
    /\ last.op = "Push"
    /\ Len(last.pre.stack) = 3
    /\ Len(Log) = 4
    /\ Replacements = {1, 2, 3}
    /\ Log[4].top = NoItem
    /\ Len(stack) = 1

====
